---- MODULE Spec2Model ----
(***************************************************************************)
(* Appointment scheduling engine of the mental-wellness backend:           *)
(* booking (POST /book, POST /book-appointment), the status lifecycle      *)
(* (PUT /appointments/:id/status, PUT /:id/status, PUT /:id/cancel,        *)
(* POST /appointments/:id/review) and the provider flags the booking       *)
(* precondition reads.                                                     *)
(*                                                                         *)
(* The ledger `appts` is the Appointment collection; the index of a        *)
(* document in the sequence is its _id.  A time of day is the string the   *)
(* code stores, modelled as the sequence of its characters: a digit is its *)
(* value and ':' is Colon, which keeps the order of the character codes    *)
(* ('0' < ... < '9' < ':'), the order MongoDB compares strings in.         *)
(* The fields notes, sessionMode and meetingLink are stored and never read *)
(* by the handlers modelled here; they are left out of the documents.      *)
(***************************************************************************)
EXTENDS Integers, Sequences, FiniteSets, TLC

VARIABLES appts, therapists, inflight, response, clock

vars == <<appts, therapists, inflight, response, clock>>

(***************************************************************************)
(* Bounds of the model.                                                    *)
(***************************************************************************)
MaxAppts == 2
MaxInflight == 2

(***************************************************************************)
(* Characters and strings.                                                 *)
(***************************************************************************)
Colon == 10

Digit == 0..9

NoText == "none"

NoRating == 0

Null == [exists |-> FALSE]

\* JavaScript / MongoDB string order: by character code, a proper prefix first.
RECURSIVE StrLt(_, _)
StrLt(a, b) ==
  IF b = <<>> THEN FALSE
  ELSE IF a = <<>> THEN TRUE
  ELSE IF Head(a) < Head(b) THEN TRUE
  ELSE IF Head(a) > Head(b) THEN FALSE
  ELSE StrLt(Tail(a), Tail(b))

\* body('startTime').matches(/^([0-1]?[0-9]|2[0-3]):[0-5][0-9]$/)
MatchesStartTime(s) ==
  \/ /\ Len(s) = 4
     /\ s[1] \in Digit /\ s[2] = Colon /\ s[3] \in 0..5 /\ s[4] \in Digit
  \/ /\ Len(s) = 5
     /\ \/ s[1] \in 0..1 /\ s[2] \in Digit
        \/ s[1] = 2 /\ s[2] \in 0..3
     /\ s[3] = Colon /\ s[4] \in 0..5 /\ s[5] \in Digit

\* body('duration').isInt({ min: 30, max: 180 })
ValidDuration(d) == d \in 30..180

\* s.split(':')[k] for a string with one colon
ColonPos(s) == CHOOSE i \in 1..Len(s) : s[i] = Colon /\ \A j \in 1..(i-1) : s[j] # Colon

HourPart(s) == SubSeq(s, 1, ColonPos(s) - 1)

MinutePart(s) == SubSeq(s, ColonPos(s) + 1, Len(s))

RECURSIVE ParseInt(_)
ParseInt(ds) ==
  IF ds = <<>> THEN 0 ELSE ParseInt(SubSeq(ds, 1, Len(ds) - 1)) * 10 + ds[Len(ds)]

\* n.toString()
RECURSIVE ToDigits(_)
ToDigits(n) == IF n < 10 THEN <<n>> ELSE Append(ToDigits(n \div 10), n % 10)

\* n.toString().padStart(2, '0')
PadStart2(n) == IF Len(ToDigits(n)) < 2 THEN <<0>> \o ToDigits(n) ELSE ToDigits(n)

\* startTimeMinutes of POST /book
StartTimeMinutes(startTime) == ParseInt(HourPart(startTime)) * 60 + ParseInt(MinutePart(startTime))

\* endTime of POST /book: `${floor(end/60) padded}:${end%60 padded}`
EndTimeOf(startTime, duration) ==
  LET endTimeMinutes == StartTimeMinutes(startTime) + duration
  IN  PadStart2(endTimeMinutes \div 60) \o <<Colon>> \o PadStart2(endTimeMinutes % 60)

\* amount of POST /book: (therapist.hourlyRate / 60) * duration; the rates of the
\* model are multiples of 30 and the durations multiples of 30 with an exact product
AmountOfFlat(hourlyRate, duration) == hourlyRate

AmountOf(hourlyRate, duration) == (hourlyRate * duration) \div 60

ActiveStatuses == {"pending", "confirmed"}

Statuses == {"pending", "confirmed", "cancelled", "completed", "no-show"}

\* body('status').isIn(['confirmed', 'cancelled', 'completed', 'no-show'])
SettableStatuses == {"confirmed", "cancelled", "completed", "no-show"}

(***************************************************************************)
(* Store queries.                                                          *)
(***************************************************************************)
\* Therapist.findById
FindTherapist(th, id) == IF id \in DOMAIN th THEN th[id] ELSE Null

\* ConflictQuery without the status filter.
ConflictQueryAnyStatus(ap, therapistId, date, startTime, endTime) ==
  \E i \in DOMAIN ap :
     /\ ap[i].therapist = therapistId
     /\ ap[i].date = date
     /\ StrLt(ap[i].startTime, endTime)
     /\ StrLt(startTime, ap[i].endTime)

\* ConflictQuery with $lte and $gte in place of $lt and $gt.
ConflictQueryInclusive(ap, therapistId, date, startTime, endTime) ==
  \E i \in DOMAIN ap :
     /\ ap[i].therapist = therapistId
     /\ ap[i].date = date
     /\ ap[i].status \in ActiveStatuses
     /\ ~StrLt(endTime, ap[i].startTime)
     /\ ~StrLt(ap[i].endTime, startTime)

\* POST /book: Appointment.findOne({therapist, date, status in [pending, confirmed],
\*   $or: [{startTime: {$lt: endTime}, endTime: {$gt: startTime}}]}) is not null
ConflictQuery(ap, therapistId, date, startTime, endTime) ==
  \E i \in DOMAIN ap :
     /\ ap[i].therapist = therapistId
     /\ ap[i].date = date
     /\ ap[i].status \in ActiveStatuses
     /\ StrLt(ap[i].startTime, endTime)
     /\ StrLt(startTime, ap[i].endTime)

\* new Appointment({...}) with the schema defaults
NewAppointmentConfirmed(user, therapistId, date, startTime, endTime, duration, sessionType, amount) ==
  [user |-> user, therapist |-> therapistId, date |-> date,
   startTime |-> startTime, endTime |-> endTime, duration |-> duration,
   status |-> "confirmed", sessionType |-> sessionType,
   cancellationReason |-> NoText, rating |-> NoRating, review |-> NoText,
   paymentStatus |-> "paid", amount |-> amount]

NewAppointment(user, therapistId, date, startTime, endTime, duration, sessionType, amount) ==
  [user |-> user, therapist |-> therapistId, date |-> date,
   startTime |-> startTime, endTime |-> endTime, duration |-> duration,
   status |-> "pending", sessionType |-> sessionType,
   cancellationReason |-> NoText, rating |-> NoRating, review |-> NoText,
   paymentStatus |-> "pending", amount |-> amount]

\* {timestamps: true}: save() sets createdAt on a document that has none.
Timestamps(ap, now) ==
  [i \in DOMAIN ap |->
     IF "createdAt" \in DOMAIN ap[i] THEN ap[i] ELSE [createdAt |-> now] @@ ap[i]]

\* new Date() when the server starts: January 3, 2025, 10 o'clock
ServerStart == [year |-> 2025, month |-> 0, day |-> 3, hour |-> 10]

\* res.status(code).json({message, appointment}) sent by a route; appointment is the
\* _id of the returned document, 0 when the body carries none
Resp(route, code, message, appointment) ==
  [route |-> route, status |-> code, message |-> message, appointment |-> appointment]

Idle == [pc |-> "idle"]

AllIdle == [s \in 1..MaxInflight |-> Idle]

(***************************************************************************)
(* POST /book (appointment routes).                                        *)
(***************************************************************************)
SessionTypes == {"individual", "group", "couple"}

BookValidation(startTime, duration, sessionType) ==
  /\ MatchesStartTime(startTime)
  /\ ValidDuration(duration)
  /\ sessionType \in SessionTypes

\* TherapistUnavailable without the isVerified test.
TherapistUnavailableUnverifiedOk(t) == ~t.exists \/ ~t.isActive

\* if (!therapist || !therapist.isActive || !therapist.isVerified) return 404
TherapistUnavailable(t) == ~t.exists \/ ~t.isActive \/ ~t.isVerified

RespValidation(route) == Resp(route, 400, "errors", 0)

RespUnavailable(route) == Resp(route, 404, "Therapist not found or unavailable", 0)

RespSlotTaken(route) == Resp(route, 400, "Time slot is not available", 0)

RespBooked(route, id) == Resp(route, 201, "Appointment booked successfully", id)

\* The whole handler run against ledger ap and provider records th.
BookResult(ap, th, user, therapistId, date, startTime, duration, sessionType) ==
  IF ~BookValidation(startTime, duration, sessionType)
  THEN [appts |-> ap, response |-> RespValidation("book")]
  ELSE LET therapist == FindTherapist(th, therapistId)
           endTime == EndTimeOf(startTime, duration)
       IN  IF TherapistUnavailable(therapist)
           THEN [appts |-> ap, response |-> RespUnavailable("book")]
           ELSE IF ConflictQuery(ap, therapistId, date, startTime, endTime)
           THEN [appts |-> ap, response |-> RespSlotTaken("book")]
           ELSE [appts |-> Append(ap, NewAppointment(user, therapistId, date, startTime,
                              endTime, duration, sessionType,
                              AmountOf(therapist.hourlyRate, duration))),
                 response |-> RespBooked("book", Len(ap) + 1)]

Book(user, therapistId, date, startTime, duration, sessionType) ==
  LET r == BookResult(appts, therapists, user, therapistId, date, startTime, duration, sessionType)
  IN  /\ response' = r.response
      /\ Len(r.appts) <= MaxAppts
      /\ appts' = Timestamps(r.appts, clock)
      /\ UNCHANGED <<therapists, inflight, clock>>

(***************************************************************************)
(* POST /book-appointment (user routes): the same handler, written again.  *)
(***************************************************************************)
StartTimeMinutesUser(startTime) == ParseInt(HourPart(startTime)) * 60 + ParseInt(MinutePart(startTime))

EndTimeOfUser(startTime, duration) ==
  LET endTimeMinutes == StartTimeMinutesUser(startTime) + duration
  IN  PadStart2(endTimeMinutes \div 60) \o <<Colon>> \o PadStart2(endTimeMinutes % 60)

ConflictQueryUser(ap, therapistId, date, startTime, endTime) ==
  \E i \in DOMAIN ap :
     /\ ap[i].therapist = therapistId
     /\ ap[i].date = date
     /\ ap[i].status \in ActiveStatuses
     /\ StrLt(ap[i].startTime, endTime)
     /\ StrLt(startTime, ap[i].endTime)

\* AmountOfUser charging the hourly rate whatever the duration.
AmountOfUserFlat(hourlyRate, duration) == hourlyRate

AmountOfUser(hourlyRate, duration) == (hourlyRate * duration) \div 60

BookAppointmentResult(ap, th, user, therapistId, date, startTime, duration, sessionType) ==
  IF ~BookValidation(startTime, duration, sessionType)
  THEN [appts |-> ap, response |-> RespValidation("book-appointment")]
  ELSE LET therapist == FindTherapist(th, therapistId)
           endTime == EndTimeOfUser(startTime, duration)
       IN  IF TherapistUnavailable(therapist)
           THEN [appts |-> ap, response |-> RespUnavailable("book-appointment")]
           ELSE IF ConflictQueryUser(ap, therapistId, date, startTime, endTime)
           THEN [appts |-> ap, response |-> RespSlotTaken("book-appointment")]
           ELSE [appts |-> Append(ap, NewAppointment(user, therapistId, date, startTime,
                              endTime, duration, sessionType,
                              AmountOfUser(therapist.hourlyRate, duration))),
                 response |-> RespBooked("book-appointment", Len(ap) + 1)]

BookAppointment(user, therapistId, date, startTime, duration, sessionType) ==
  LET r == BookAppointmentResult(appts, therapists, user, therapistId, date, startTime,
                                 duration, sessionType)
  IN  /\ response' = r.response
      /\ Len(r.appts) <= MaxAppts
      /\ appts' = Timestamps(r.appts, clock)
      /\ UNCHANGED <<therapists, inflight, clock>>

(***************************************************************************)
(* Lifecycle handlers.                                                     *)
(***************************************************************************)
RespNotFound(route) == Resp(route, 404, "Appointment not found", 0)

RespStatusUpdated(id) ==
  Resp("therapist/status", 200, "Appointment status updated successfully", id)

RespAppointment(route, id) == Resp(route, 200, "appointment", id)

RespNotCancellable == Resp("cancel", 404, "Appointment not found or cannot be cancelled", 0)

RespNotReviewable == Resp("review", 404, "Appointment not found or not completed", 0)

RespReviewed(id) == Resp("review", 200, "Review submitted successfully", id)

\* FindForTherapist without the therapist filter.
FindForAnyTherapist(ap, id, actor) == id \in DOMAIN ap

\* Appointment.findOne({_id: id, therapist: actor}) finds a document
FindForTherapist(ap, id, actor) == id \in DOMAIN ap /\ ap[id].therapist = actor

\* appointment.save() of PUT /appointments/:id/status: mongoose writes the paths
\* whose value differs from the loaded document
SaveStatus(ap, id, loaded, status, cancellationReason) ==
  [ap EXCEPT ![id] =
     [@ EXCEPT !.status = IF status # loaded.status THEN status ELSE @,
               !.cancellationReason =
                  IF cancellationReason # NoText /\ cancellationReason # loaded.cancellationReason
                  THEN cancellationReason ELSE @]]

\* PUT /appointments/:id/status (therapist routes)
SetStatusResult(ap, actor, id, status, cancellationReason) ==
  IF status \notin SettableStatuses
  THEN [appts |-> ap, response |-> RespValidation("therapist/status")]
  ELSE IF ~FindForTherapist(ap, id, actor)
  THEN [appts |-> ap, response |-> RespNotFound("therapist/status")]
  ELSE [appts |-> SaveStatus(ap, id, ap[id], status, cancellationReason),
        response |-> RespStatusUpdated(id)]

SetStatus(actor, id, status, cancellationReason) ==
  LET r == SetStatusResult(appts, actor, id, status, cancellationReason)
  IN  /\ response' = r.response
      /\ appts' = Timestamps(r.appts, clock)
      /\ UNCHANGED <<therapists, inflight, clock>>

\* PUT /:id/status (appointment routes): findOneAndUpdate({_id, therapist}, {status})
UpdateStatusResult(ap, actor, id, status) ==
  IF status \notin SettableStatuses
  THEN [appts |-> ap, response |-> RespValidation("status")]
  ELSE IF ~(id \in DOMAIN ap /\ ap[id].therapist = actor)
  THEN [appts |-> ap, response |-> RespNotFound("status")]
  ELSE [appts |-> [ap EXCEPT ![id].status = status], response |-> RespAppointment("status", id)]

UpdateStatus(actor, id, status) ==
  LET r == UpdateStatusResult(appts, actor, id, status)
  IN  /\ response' = r.response
      /\ appts' = Timestamps(r.appts, clock)
      /\ UNCHANGED <<therapists, inflight, clock>>

\* CancelResult without the status filter.
CancelResultAnyStatus(ap, user, id) ==
  IF ~(id \in DOMAIN ap /\ ap[id].user = user)
  THEN [appts |-> ap, response |-> Resp("cancel", 404, "Appointment not found or cannot be cancelled", 0)]
  ELSE [appts |-> [ap EXCEPT ![id].status = "cancelled"],
        response |-> Resp("cancel", 200, "appointment", id)]

\* PUT /:id/cancel: findOneAndUpdate({_id, user, status in [pending, confirmed]},
\*   {status: 'cancelled'})
CancelResult(ap, user, id) ==
  IF ~(id \in DOMAIN ap /\ ap[id].user = user /\ ap[id].status \in ActiveStatuses)
  THEN [appts |-> ap, response |-> RespNotCancellable]
  ELSE [appts |-> [ap EXCEPT ![id].status = "cancelled"], response |-> RespAppointment("cancel", id)]

Cancel(user, id) ==
  LET r == CancelResult(appts, user, id)
  IN  /\ response' = r.response
      /\ appts' = Timestamps(r.appts, clock)
      /\ UNCHANGED <<therapists, inflight, clock>>

\* FindForReview without the status filter.
FindForReviewAnyStatus(ap, id, user) == id \in DOMAIN ap /\ ap[id].user = user

\* Appointment.findOne({_id: id, user, status: 'completed'}) finds a document
FindForReview(ap, id, user) ==
  id \in DOMAIN ap /\ ap[id].user = user /\ ap[id].status = "completed"

\* appointment.rating = rating; appointment.review = review; appointment.save()
SaveReview(ap, id, loaded, rating, review) ==
  [ap EXCEPT ![id] =
     [@ EXCEPT !.rating = IF rating # loaded.rating THEN rating ELSE @,
               !.review = IF review # loaded.review THEN review ELSE @]]

\* POST /appointments/:id/review
ReviewResult(ap, user, id, rating, review) ==
  IF rating \notin 1..5
  THEN [appts |-> ap, response |-> RespValidation("review")]
  ELSE IF ~FindForReview(ap, id, user)
  THEN [appts |-> ap, response |-> RespNotReviewable]
  ELSE [appts |-> SaveReview(ap, id, ap[id], rating, review), response |-> RespReviewed(id)]

Review(user, id, rating, review) ==
  LET r == ReviewResult(appts, user, id, rating, review)
  IN  /\ response' = r.response
      /\ appts' = Timestamps(r.appts, clock)
      /\ UNCHANGED <<therapists, inflight, clock>>

(***************************************************************************)
(* Provider records: PUT /therapists/:id/verify and                        *)
(* PUT /users/:id/toggle-status?userType=therapist of the admin routes.    *)
(***************************************************************************)
RespTherapist == Resp("verify", 200, "therapist", 0)

RespTherapistNotFound == Resp("verify", 404, "Therapist not found", 0)

RespUser == Resp("toggle-status", 200, "user", 0)

RespUserNotFound == Resp("toggle-status", 404, "User not found", 0)

VerifyTherapist(id) ==
  /\ IF id \in DOMAIN therapists
     THEN /\ therapists' = [therapists EXCEPT ![id].isVerified = TRUE]
          /\ response' = RespTherapist
     ELSE /\ therapists' = therapists
          /\ response' = RespTherapistNotFound
  /\ UNCHANGED <<appts, inflight, clock>>

\* The handler reads isActive with findById and writes its negation.
ToggleStatus(id) ==
  /\ IF id \in DOMAIN therapists
     THEN /\ therapists' = [therapists EXCEPT ![id].isActive = ~therapists[id].isActive]
          /\ response' = RespUser
     ELSE /\ therapists' = therapists
          /\ response' = RespUserNotFound
  /\ UNCHANGED <<appts, inflight, clock>>

(***************************************************************************)
(* PUT /therapists/profile: the provider changes their own profile.  Of    *)
(* the body only hourlyRate matters to the ledger; it must be a float of   *)
(* at least 0, and the update is one findByIdAndUpdate.                    *)
(***************************************************************************)
RespProfileInvalid == Resp("profile", 400, "errors", 0)

RespProfile == Resp("profile", 200, "therapist", 0)

UpdateProfileRepricing(actor, hourlyRate) ==
  /\ IF hourlyRate < 0
     THEN /\ response' = RespProfileInvalid
          /\ therapists' = therapists
          /\ appts' = appts
     ELSE /\ response' = RespProfile
          /\ therapists' = [therapists EXCEPT ![actor].hourlyRate = hourlyRate]
          /\ appts' = [i \in DOMAIN appts |->
                         IF appts[i].therapist = actor
                         THEN [appts[i] EXCEPT !.amount = AmountOf(hourlyRate, appts[i].duration)]
                         ELSE appts[i]]
  /\ UNCHANGED <<inflight, clock>>

UpdateProfile(actor, hourlyRate) ==
  /\ IF hourlyRate < 0
     THEN /\ response' = RespProfileInvalid
          /\ therapists' = therapists
     ELSE /\ response' = RespProfile
          /\ therapists' = [therapists EXCEPT ![actor].hourlyRate = hourlyRate]
  /\ UNCHANGED <<appts, inflight, clock>>

(***************************************************************************)
(* GET /appointments/available-slots/:therapistId?date=                    *)
(***************************************************************************)
\* `!date`: the query carries no date
NoDate == [missing |-> TRUE]

RespDateRequired == Resp("available-slots", 400, "Date is required", 0)

RespNoTherapist == Resp("available-slots", 404, "Therapist not found", 0)

\* res.json({ availableSlots })
RespSlots(availableSlots) ==
  [route |-> "available-slots", status |-> 200, message |-> "availableSlots",
   appointment |-> 0, availableSlots |-> availableSlots]

BookedTimeSlotsAnyStatus(ap, therapistId, date) ==
  {ap[i].startTime : i \in {j \in DOMAIN ap :
                               ap[j].therapist = therapistId /\ ap[j].date = date}}

\* Appointment.find({therapist, date, status: {$in: ['confirmed', 'pending']}})
\* mapped to the startTime strings
BookedTimeSlots(ap, therapistId, date) ==
  {ap[i].startTime : i \in {j \in DOMAIN ap :
                               /\ ap[j].therapist = therapistId
                               /\ ap[j].date = date
                               /\ ap[j].status \in ActiveStatuses}}

\* `${hour.toString().padStart(2, '0')}:00`
HourSlot(hour) == PadStart2(hour) \o <<Colon, 0, 0>>

\* for (let hour = ...; hour < 18; hour++) { if (!includes) push }
RECURSIVE SlotsFromHour(_, _)
SlotsFromHour(hour, bookedTimeSlots) ==
  IF ~(hour < 18) THEN <<>>
  ELSE (IF HourSlot(hour) \notin bookedTimeSlots
        THEN <<[startTime |-> HourSlot(hour), endTime |-> HourSlot(hour + 1)]>>
        ELSE <<>>) \o SlotsFromHour(hour + 1, bookedTimeSlots)

AvailableSlotsResult(ap, th, therapistId, date) ==
  IF date = NoDate THEN RespDateRequired
  ELSE IF ~FindTherapist(th, therapistId).exists THEN RespNoTherapist
  ELSE RespSlots(SlotsFromHour(9, BookedTimeSlots(ap, therapistId, date)))

\* The same, also dropping the appointments that no longer hold a slot.
GetAvailableSlotsPurging(therapistId, date) ==
  /\ response' = AvailableSlotsResult(appts, therapists, therapistId, date)
  /\ appts' = SelectSeq(appts, LAMBDA a : a.status \in ActiveStatuses)
  /\ UNCHANGED <<therapists, inflight, clock>>

GetAvailableSlots(therapistId, date) ==
  /\ response' = AvailableSlotsResult(appts, therapists, therapistId, date)
  /\ UNCHANGED <<appts, therapists, inflight, clock>>

(***************************************************************************)
(* Dates.  A Date is read through its calendar fields [year, month, day,   *)
(* hour], month counted from 0 as getMonth() does; the server's time zone  *)
(* is UTC, so a date given as 'YYYY-MM-DD' is midnight of that day.        *)
(***************************************************************************)
IsLeapYear(year) == (year % 4 = 0 /\ year % 100 # 0) \/ year % 400 = 0

DaysInMonth(year, month) ==
  IF month = 1 THEN (IF IsLeapYear(year) THEN 29 ELSE 28)
  ELSE IF month \in {3, 5, 8, 10} THEN 30
  ELSE 31

\* new Date(year, monthIndex, day)
NewDate(year, monthIndex, day) ==
  [year |-> year, month |-> monthIndex, day |-> day, hour |-> 0]

\* new Date(now.getTime() - 7 * 24 * 60 * 60 * 1000)
MinusSevenDays(now) ==
  IF now.day > 7 THEN [now EXCEPT !.day = now.day - 7]
  ELSE IF now.month > 0
       THEN [now EXCEPT !.month = now.month - 1,
                        !.day = now.day + DaysInMonth(now.year, now.month - 1) - 7]
       ELSE [now EXCEPT !.year = now.year - 1, !.month = 11,
                        !.day = now.day + DaysInMonth(now.year - 1, 11) - 7]

\* a.getTime() >= b.getTime(), the order of $gte on dates
DateGte(a, b) ==
  \/ a.year > b.year
  \/ a.year = b.year /\ a.month > b.month
  \/ a.year = b.year /\ a.month = b.month /\ a.day > b.day
  \/ a.year = b.year /\ a.month = b.month /\ a.day = b.day /\ a.hour >= b.hour

(***************************************************************************)
(* GET /therapists/analytics and GET /admin/analytics: the window.         *)
(***************************************************************************)
\* req.query carries no period
NoPeriod == "undefined"

\* const { period = 'month' } = req.query
PeriodOf(query) == IF query = NoPeriod THEN "month" ELSE query

StartDateAlwaysMonth(period, now) == NewDate(now.year, now.month, 1)

\* the switch of GET /therapists/analytics
StartDate(period, now) ==
  CASE period = "week" -> MinusSevenDays(now)
    [] period = "year" -> NewDate(now.year, 0, 1)
    [] period = "quarter" -> LET quarter == now.month \div 3
                             IN  NewDate(now.year, quarter * 3, 1)
    [] OTHER -> NewDate(now.year, now.month, 1)

\* the switch of GET /admin/analytics
StartDateAdmin(period, now) ==
  CASE period = "week" -> MinusSevenDays(now)
    [] period = "year" -> NewDate(now.year, 0, 1)
    [] period = "quarter" -> NewDate(now.year, (now.month \div 3) * 3, 1)
    [] OTHER -> NewDate(now.year, now.month, 1)

(***************************************************************************)
(* GET /therapists/analytics: the report.  A label is the tuple of the     *)
(* calendar fields its string shows: <<month, day>> for 'Jan 5', <<month>> *)
(* for 'January', <<month, day, year>> for '1/5/2025'.  A Map is the       *)
(* sequence of its <<key, value>> entries in insertion order.              *)
(***************************************************************************)
\* labelFormat
LabelFormat(period, date) ==
  IF period = "week" \/ period = "month" THEN <<date.month, date.day>>
  ELSE IF period = "year" \/ period = "quarter" THEN <<date.month>>
  ELSE <<date.month, date.day, date.year>>

\* Appointment.find({therapist, date: {$gte: startDate}}), as ids in ledger order
AppointmentsInRange(ap, therapistId, startDate) ==
  SelectSeq([i \in 1..Len(ap) |-> i],
            LAMBDA i : ap[i].therapist = therapistId /\ DateGte(ap[i].date, startDate))

\* map.set(key, (map.get(key) || 0) + n)
MapAdd(map, key, n) ==
  IF \E k \in DOMAIN map : map[k][1] = key
  THEN [k \in DOMAIN map |-> IF map[k][1] = key THEN <<key, map[k][2] + n>> ELSE map[k]]
  ELSE Append(map, <<key, n>>)

RECURSIVE EarningsDataAnyStatus(_, _, _, _)
EarningsDataAnyStatus(map, ap, inRange, period) ==
  IF inRange = <<>> THEN map
  ELSE LET app == ap[Head(inRange)]
       IN  EarningsDataAnyStatus(MapAdd(map, LabelFormat(period, app.date), app.amount),
                                 ap, Tail(inRange), period)

\* the forEach over appointmentsInRange, for earningsData
RECURSIVE EarningsData(_, _, _, _)
EarningsData(map, ap, inRange, period) ==
  IF inRange = <<>> THEN map
  ELSE LET app == ap[Head(inRange)]
           key == LabelFormat(period, app.date)
       IN  EarningsData(IF app.status = "completed" THEN MapAdd(map, key, app.amount)
                        ELSE map,
                        ap, Tail(inRange), period)

RECURSIVE AppointmentsDataCompleted(_, _, _, _)
AppointmentsDataCompleted(map, ap, inRange, period) ==
  IF inRange = <<>> THEN map
  ELSE LET app == ap[Head(inRange)]
       IN  AppointmentsDataCompleted(IF app.status = "completed"
                                     THEN MapAdd(map, LabelFormat(period, app.date), 1)
                                     ELSE map,
                                     ap, Tail(inRange), period)

\* the forEach over appointmentsInRange, for appointmentsData
RECURSIVE AppointmentsData(_, _, _, _)
AppointmentsData(map, ap, inRange, period) ==
  IF inRange = <<>> THEN map
  ELSE LET app == ap[Head(inRange)]
       IN  AppointmentsData(MapAdd(map, LabelFormat(period, app.date), 1),
                            ap, Tail(inRange), period)

\* new Date(label) is a valid date: the legacy parser needs a number in the string
LabelParses(label) == Len(label) >= 2

\* new Date(label): a string without a year is read as of the year 2001, and a day
\* past the end of the month runs into the next month
ParseLabel(label) ==
  IF Len(label) = 3 THEN NewDate(label[3], label[1], label[2])
  ELSE IF label[2] > DaysInMonth(2001, label[1])
       THEN NewDate(2001, label[1] + 1, label[2] - DaysInMonth(2001, label[1]))
       ELSE NewDate(2001, label[1], label[2])

\* the comparator (a, b) => new Date(a[0]).getTime() - new Date(b[0]).getTime() is
\* negative; NaN, the difference of invalid dates, is not
SortsBefore(a, b) ==
  /\ LabelParses(a[1])
  /\ LabelParses(b[1])
  /\ ~DateGte(ParseLabel(a[1]), ParseLabel(b[1]))

\* one entry put into a sorted sequence, after the entries it does not sort before
InsertEntry(sorted, e) ==
  IF \E k \in DOMAIN sorted : SortsBefore(e, sorted[k])
  THEN LET k == CHOOSE j \in DOMAIN sorted :
                   /\ SortsBefore(e, sorted[j])
                   /\ \A l \in 1..(j - 1) : ~SortsBefore(e, sorted[l])
       IN  SubSeq(sorted, 1, k - 1) \o <<e>> \o SubSeq(sorted, k, Len(sorted))
  ELSE Append(sorted, e)

\* [...map.entries()].sort(comparator): Array.prototype.sort is stable
RECURSIVE SortEntries(_)
SortEntries(entries) ==
  IF entries = <<>> THEN <<>>
  ELSE InsertEntry(SortEntries(SubSeq(entries, 1, Len(entries) - 1)),
                   entries[Len(entries)])

\* The same with one zero entry in place of an empty series.
SeriesZeroFilled(sorted) ==
  IF sorted = <<>> THEN [labels |-> <<NoText>>, data |-> <<0>>]
  ELSE [labels |-> [k \in DOMAIN sorted |-> sorted[k][1]],
        data |-> [k \in DOMAIN sorted |-> sorted[k][2]]]

\* {labels: sorted.map(e => e[0]), data: sorted.map(e => e[1])}
Series(sorted) ==
  [labels |-> [k \in DOMAIN sorted |-> sorted[k][1]],
   data |-> [k \in DOMAIN sorted |-> sorted[k][2]]]

\* [...new Set(appointmentsInRange.map(app => app.user._id))], in insertion order
RECURSIVE ClientIds(_, _, _)
ClientIds(ids, ap, inRange) ==
  IF inRange = <<>> THEN ids
  ELSE LET user == ap[Head(inRange)].user
       IN  ClientIds(IF \E k \in DOMAIN ids : ids[k] = user THEN ids ELSE Append(ids, user),
                     ap, Tail(inRange))

\* The aggregate $match {user: {$in: clientIds}}, $group {_id: '$user',
\* firstAppointment: {$min: '$date'}}, $match {firstAppointment: {$gte: startDate}}:
\* the clients every one of whose appointments, with any provider, is dated in the window.
NewClientIds(ap, clientIds, startDate) ==
  {clientIds[k] : k \in {j \in DOMAIN clientIds :
      \A i \in DOMAIN ap : ap[i].user = clientIds[j] => DateGte(ap[i].date, startDate)}}

\* The aggregate over the provider's completed, rated appointments: the sum and the
\* number of the ratings that $avg divides; <<0, 1>> when there is none (`|| 0`).
AverageRating(ap, therapistId) ==
  LET rated == SelectSeq([i \in 1..Len(ap) |-> i],
                         LAMBDA i : /\ ap[i].therapist = therapistId
                                    /\ ap[i].status = "completed"
                                    /\ ap[i].rating # NoRating)
      RECURSIVE Total(_)
      Total(ids) == IF ids = <<>> THEN 0 ELSE ap[Head(ids)].rating + Total(Tail(ids))
  IN  IF rated = <<>> THEN <<0, 1>> ELSE <<Total(rated), Len(rated)>>

\* the forEach over appointmentsInRange, for sessionTypes
RECURSIVE SessionTypesData(_, _, _)
SessionTypesData(map, ap, inRange) ==
  IF inRange = <<>> THEN map
  ELSE SessionTypesData(MapAdd(map, ap[Head(inRange)].sessionType, 1), ap, Tail(inRange))

\* The aggregate of the year view: the provider's completed appointments dated in the
\* window, grouped by {$month: '$date'} and sorted by month; an entry is
\* <<month, totalAppointments, totalEarnings>>.
RECURSIVE MonthlyData(_, _, _, _)
MonthlyData(ap, therapistId, startDate, month) ==
  IF month > 11 THEN <<>>
  ELSE LET ids == SelectSeq([i \in 1..Len(ap) |-> i],
                            LAMBDA i : /\ ap[i].therapist = therapistId
                                       /\ DateGte(ap[i].date, startDate)
                                       /\ ap[i].status = "completed"
                                       /\ ap[i].date.month = month)
           RECURSIVE Earned(_)
           Earned(js) == IF js = <<>> THEN 0 ELSE ap[Head(js)].amount + Earned(Tail(js))
       IN  (IF ids = <<>> THEN <<>> ELSE <<<<month, Len(ids), Earned(ids)>>>>)
           \o MonthlyData(ap, therapistId, startDate, month + 1)

MonthlyTrends(ap, therapistId, startDate, period) ==
  LET monthlyData == IF period = "year" THEN MonthlyData(ap, therapistId, startDate, 0)
                     ELSE <<>>
  IN  [labels |-> [k \in DOMAIN monthlyData |-> <<monthlyData[k][1]>>],
       appointments |-> [k \in DOMAIN monthlyData |-> monthlyData[k][2]],
       earnings |-> [k \in DOMAIN monthlyData |-> monthlyData[k][3]]]

\* res.json({earnings, appointments, clientStats, sessionTypes, monthlyTrends})
AnalyticsReport(ap, therapistId, period, startDate) ==
  LET inRange == AppointmentsInRange(ap, therapistId, startDate)
      clientIds == ClientIds(<<>>, ap, inRange)
      newClientsCount == Cardinality(NewClientIds(ap, clientIds, startDate))
  IN  [route |-> "therapist/analytics", status |-> 200,
       earnings |-> Series(SortEntries(EarningsData(<<>>, ap, inRange, period))),
       appointments |-> Series(SortEntries(AppointmentsData(<<>>, ap, inRange, period))),
       clientStats |-> [totalClients |-> Len(clientIds),
                        newClients |-> newClientsCount,
                        returningClients |-> Len(clientIds) - newClientsCount,
                        averageRating |-> AverageRating(ap, therapistId)],
       sessionTypes |-> Series(SessionTypesData(<<>>, ap, inRange)),
       monthlyTrends |-> MonthlyTrends(ap, therapistId, startDate, period)]

(***************************************************************************)
(* GET /admin/analytics: of the report, the parts read from the            *)
(* appointments and from the provider records.  A label is                 *)
(* <<year, month, day>> for '%Y-%m-%d' and <<year, month>> for '%Y-%m'.    *)
(***************************************************************************)
\* $dateToString with the format of the period
RevenueKey(period, date) ==
  IF period = "week" \/ period = "month" THEN <<date.year, date.month, date.day>>
  ELSE <<date.year, date.month>>

\* the order of the strings 'YYYY-MM-DD' and 'YYYY-MM', the order of {$sort: {_id: 1}}
RECURSIVE KeyLt(_, _)
KeyLt(a, b) ==
  IF a = <<>> \/ b = <<>> THEN a = <<>> /\ b # <<>>
  ELSE Head(a) < Head(b) \/ (Head(a) = Head(b) /\ KeyLt(Tail(a), Tail(b)))

\* the keys in ascending order
RECURSIVE SortedKeys(_)
SortedKeys(keys) ==
  IF keys = {} THEN <<>>
  ELSE LET least == CHOOSE k \in keys : \A other \in keys \ {k} : KeyLt(k, other)
       IN  <<least>> \o SortedKeys(keys \ {least})

\* $sum of the amounts of the appointments of the group
RECURSIVE SumAmounts(_, _)
SumAmounts(ap, ids) ==
  IF ids = {} THEN 0
  ELSE LET i == CHOOSE j \in ids : TRUE IN ap[i].amount + SumAmounts(ap, ids \ {i})

\* getRevenueData
RevenueData(ap, startDate, period) ==
  LET matched == {i \in DOMAIN ap : ap[i].status = "completed" /\ DateGte(ap[i].date, startDate)}
      group(key) == {i \in matched : RevenueKey(period, ap[i].date) = key}
      revenue == SortedKeys({RevenueKey(period, ap[i].date) : i \in matched})
  IN  [labels |-> revenue,
       revenue |-> [k \in DOMAIN revenue |-> SumAmounts(ap, group(revenue[k]))],
       appointments |-> [k \in DOMAIN revenue |-> Cardinality(group(revenue[k]))]]

\* getTherapistStats
TherapistStats(th) ==
  [verified |-> Cardinality({t \in DOMAIN th : th[t].isVerified}),
   pending |-> Cardinality({t \in DOMAIN th : ~th[t].isVerified}),
   active |-> Cardinality({t \in DOMAIN th : th[t].isActive}),
   inactive |-> Cardinality({t \in DOMAIN th : ~th[t].isActive})]

\* getPlatformStats: the counts and the $sum over the appointments created (not
\* dated) on or after startDate; `totalRevenue[0]?.total || 0`
PlatformStats(ap, th, startDate) ==
  LET created == {i \in DOMAIN ap : DateGte(ap[i].createdAt, startDate)}
      completed == {i \in created : ap[i].status = "completed"}
  IN  [totalTherapists |-> Cardinality(DOMAIN th),
       totalAppointments |-> Cardinality(created),
       completedAppointments |-> Cardinality(completed),
       totalRevenue |-> SumAmounts(ap, completed)]

\* getAppointmentStatus: the number of appointments created on or after startDate,
\* by status; $group yields the statuses in no particular order
AppointmentStatus(ap, startDate) ==
  LET created == {i \in DOMAIN ap : DateGte(ap[i].createdAt, startDate)}
  IN  [st \in {ap[i].status : i \in created} |->
         Cardinality({i \in created : ap[i].status = st})]

AdminReport(ap, th, period, startDate) ==
  [route |-> "admin/analytics", status |-> 200,
   platformStats |-> PlatformStats(ap, th, startDate),
   revenueAnalytics |-> RevenueData(ap, startDate, period),
   therapistStats |-> TherapistStats(th),
   appointmentStatus |-> AppointmentStatus(ap, startDate)]

(***************************************************************************)
(* Inputs of the requests.                                                 *)
(***************************************************************************)
T0900 == <<0, 9, Colon, 0, 0>>

T1000 == <<1, 0, Colon, 0, 0>>

T930 == <<9, Colon, 3, 0>>

T0930 == <<0, 9, Colon, 3, 0>>

T900 == <<9, Colon, 0, 0>>

T2400 == <<2, 4, Colon, 0, 0>>

T2330 == <<2, 3, Colon, 3, 0>>

Clients == {"u1", "u2"}

TherapistIds == {"t1", "t2"}

Ids == 1..MaxAppts

Registered(verified) ==
  [t \in TherapistIds |->
     [exists |-> TRUE, isActive |-> TRUE, isVerified |-> verified, hourlyRate |-> 90]]

(***************************************************************************)
(* Spec: the lifecycle.  Requests are handled one at a time; two clients   *)
(* and two verified providers book overlapping slots of one day, and every *)
(* lifecycle handler is called with every identity and appointment id.     *)
(***************************************************************************)
Init ==
  /\ appts = <<>>
  /\ therapists = Registered(TRUE)
  /\ inflight = AllIdle
  /\ response = Resp("none", 0, "none", 0)
  /\ clock = ServerStart

LifeStartTimes == {T0900}

Reasons == {NoText, "sick"}

NextBook ==
  \E u \in Clients, t \in TherapistIds, st \in LifeStartTimes :
     Book(u, t, 1, st, 60, "individual")

NextSetStatus ==
  \E t \in TherapistIds, id \in Ids, st \in SettableStatuses \cup {"pending"}, r \in Reasons :
     SetStatus(t, id, st, r)

NextUpdateStatus ==
  \E t \in TherapistIds, id \in Ids, st \in SettableStatuses \cup {"pending"} :
     UpdateStatus(t, id, st)

NextCancel == \E u \in Clients, id \in Ids : Cancel(u, id)

NextReview == \E u \in Clients, id \in Ids, rt \in {0, 5} : Review(u, id, rt, "good")

Next ==
  \/ NextBook
  \/ NextSetStatus
  \/ NextUpdateStatus
  \/ NextCancel
  \/ NextReview

Spec == Init /\ [][Next]_vars

(***************************************************************************)
(* Properties of the ledger and of the lifecycle, checked under Spec.      *)
(***************************************************************************)
\* A stored time of day as minutes since midnight.
ClockMinutes(s) ==
  LET c == ColonPos(s)
  IN  ParseInt(SubSeq(s, 1, c - 1)) * 60 + ParseInt(SubSeq(s, c + 1, Len(s)))

\* The half-open intervals [from1, to1) and [from2, to2) of minutes intersect.
Intersects(from1, to1, from2, to2) == from1 < to2 /\ from2 < to1

TrulyOverlap(a, b) ==
  Intersects(ClockMinutes(a.startTime), ClockMinutes(a.endTime),
             ClockMinutes(b.startTime), ClockMinutes(b.endTime))

TerminalStatuses == {"cancelled", "completed", "no-show"}

\* C1: any two distinct pending or confirmed appointments of the same provider and
\* date have non-overlapping [startTime, endTime) intervals, compared as times of day.
C1_NoDoubleBooking ==
  \A i \in DOMAIN appts, j \in DOMAIN appts :
     ( /\ i # j
       /\ appts[i].therapist = appts[j].therapist
       /\ appts[i].date = appts[j].date
       /\ appts[i].status \in ActiveStatuses
       /\ appts[j].status \in ActiveStatuses )
     => ~TrulyOverlap(appts[i], appts[j])

\* C5: no step changes the status of an appointment whose status is cancelled,
\* completed or no-show (so a provider status-set acts on pending and confirmed only).
C5_TerminalStatusStays ==
  [][\A i \in DOMAIN appts :
        appts[i].status \in TerminalStatuses => appts'[i].status = appts[i].status]_vars

\* C6: a client cancel on the client's own appointment sets the status to cancelled
\* (and nothing else) from pending or confirmed, and from completed, no-show or
\* cancelled it fails and leaves the ledger unchanged.
C6_ClientCancel ==
  [][response'.route = "cancel" => \A u \in Clients, id \in DOMAIN appts :
        (appts[id].user = u /\ Cancel(u, id)) =>
           IF appts[id].status \in ActiveStatuses
           THEN /\ appts' = [appts EXCEPT ![id].status = "cancelled"]
                /\ response'.status = 200
                /\ response'.appointment = id
           ELSE /\ appts' = appts
                /\ response'.status = 404]_vars

\* C6 witness: the cancel route answered with the appointment it cancelled.
C6_Witness ==
  /\ response.route = "cancel"
  /\ response.status = 200
  /\ response.appointment \in DOMAIN appts
  /\ appts[response.appointment].status = "cancelled"

C7_RejectWitness ==
  /\ response = RespNotReviewable
  /\ \E i \in DOMAIN appts : appts[i].status = "pending"

\* C8: a provider status-set (either route) on another provider's appointment, and a
\* client cancel or review on another client's appointment, answers exactly as the same
\* request on an appointment id that does not exist, and leaves the ledger unchanged.
NoSuchId == Len(appts) + 1

C8_ForeignIsNotFound ==
  [][/\ response'.route = "therapist/status" =>
        \A t \in TherapistIds, id \in DOMAIN appts, st \in SettableStatuses, r \in Reasons :
          (appts[id].therapist # t /\ SetStatus(t, id, st, r)) =>
             /\ appts' = appts
             /\ response' = SetStatusResult(appts, t, NoSuchId, st, r).response
             /\ response'.status = 404
     /\ response'.route = "status" =>
        \A t \in TherapistIds, id \in DOMAIN appts, st \in SettableStatuses :
          (appts[id].therapist # t /\ UpdateStatus(t, id, st)) =>
             /\ appts' = appts
             /\ response' = UpdateStatusResult(appts, t, NoSuchId, st).response
             /\ response'.status = 404
     /\ response'.route = "cancel" => \A u \in Clients, id \in DOMAIN appts :
          (appts[id].user # u /\ Cancel(u, id)) =>
             /\ appts' = appts
             /\ response' = CancelResult(appts, u, NoSuchId).response
             /\ response'.status = 404
     /\ response'.route = "review" => \A u \in Clients, id \in DOMAIN appts :
          (appts[id].user # u /\ Review(u, id, 5, "good")) =>
             /\ appts' = appts
             /\ response' = ReviewResult(appts, u, NoSuchId, 5, "good").response
             /\ response'.status = 404]_vars

\* C8 witness: the provider status route answered not-found while the ledger is full,
\* so the id it was given names an appointment, one of another provider.
C8_Witness ==
  /\ response = RespNotFound("status")
  /\ Len(appts) = MaxAppts
  /\ \A i \in DOMAIN appts : appts[i].status \in ActiveStatuses

\* C15: an appointment carries a cancellationReason only if its status is cancelled.
C15_ReasonOnlyWhenCancelled ==
  \A i \in DOMAIN appts :
     appts[i].cancellationReason # NoText => appts[i].status = "cancelled"

\* No step removes or renumbers an appointment: every id of the ledger is still an
\* id after the step, of an appointment of the same client, provider, date and time.
NeverRemoved ==
  [][\A i \in DOMAIN appts :
        /\ i \in DOMAIN appts'
        /\ appts'[i].user = appts[i].user
        /\ appts'[i].therapist = appts[i].therapist
        /\ appts'[i].date = appts[i].date
        /\ appts'[i].startTime = appts[i].startTime
        /\ appts'[i].endTime = appts[i].endTime]_vars

\* C16: no operation removes an appointment: the set of persisted appointment ids
\* only grows, and a cancelled appointment remains in the ledger with status
\* cancelled.
C16_CancelledRemains ==
  [][\A i \in DOMAIN appts :
        /\ i \in DOMAIN appts'
        /\ appts[i].status = "cancelled" => appts'[i].status = "cancelled"]_vars

(***************************************************************************)
(* SpecBooking: the conflict check.  One client books one verified         *)
(* provider on two dates, with start times written with one and with two   *)
(* hour digits and two durations; the provider's status route and the      *)
(* client's cancel move appointments out of pending.                       *)
(***************************************************************************)
BookingStartTimes == {T0900, T930, T1000, T2400}

BookingDurations == {30, 60}

BookingDates == {1, 2}

BookingNextBook ==
  \E d \in BookingDates, st \in BookingStartTimes, dur \in BookingDurations :
     Book("u1", "t1", d, st, dur, "individual")

BookingNextBookAppointment ==
  \E d \in BookingDates, st \in BookingStartTimes, dur \in BookingDurations :
     BookAppointment("u1", "t1", d, st, dur, "individual")

BookingNextUpdateStatus ==
  \E id \in 1..MaxAppts, st \in SettableStatuses : UpdateStatus("t1", id, st)

BookingNextCancel == \E id \in 1..MaxAppts : Cancel("u1", id)

NextBooking ==
  \/ BookingNextBook
  \/ BookingNextBookAppointment
  \/ BookingNextUpdateStatus
  \/ BookingNextCancel

SpecBooking == Init /\ [][NextBooking]_vars

\* Some pending or confirmed appointment of the provider and date intersects the
\* requested interval [startTime, startTime + duration), as times of day.
SlotTaken(therapistId, date, startTime, duration) ==
  \E i \in DOMAIN appts :
     /\ appts[i].therapist = therapistId
     /\ appts[i].date = date
     /\ appts[i].status \in ActiveStatuses
     /\ Intersects(ClockMinutes(appts[i].startTime), ClockMinutes(appts[i].endTime),
                   ClockMinutes(startTime), ClockMinutes(startTime) + duration)

BookingRoutes == {"book", "book-appointment"}

\* Either booking route handles the request in this step.
Books(user, therapistId, date, startTime, duration, sessionType) ==
  \/ /\ response'.route = "book"
     /\ Book(user, therapistId, date, startTime, duration, sessionType)
  \/ /\ response'.route = "book-appointment"
     /\ BookAppointment(user, therapistId, date, startTime, duration, sessionType)

\* C3: a book request with a valid startTime and duration whose interval overlaps a
\* pending or confirmed appointment of the same provider and date is answered with
\* the slot-conflict error and leaves the ledger unchanged.
C3_OverlapIsRejected ==
  [][response'.route \in BookingRoutes =>
       \A d \in BookingDates, st \in BookingStartTimes, dur \in BookingDurations :
          ( /\ MatchesStartTime(st)
            /\ Books("u1", "t1", d, st, dur, "individual")
            /\ SlotTaken("t1", d, st, dur) )
          => /\ response'.message = "Time slot is not available"
             /\ appts' = appts]_vars

\* C4: a book request is answered with the slot-conflict error only if a pending or
\* confirmed appointment of that provider and date intersects the requested
\* half-open interval; otherwise (touching intervals, other dates, cancelled,
\* completed or no-show appointments) a valid request creates the appointment.
C4_RejectedOnlyOnOverlap ==
  [][response'.route \in BookingRoutes =>
       \A d \in BookingDates, st \in BookingStartTimes, dur \in BookingDurations :
          ( /\ MatchesStartTime(st)
            /\ Books("u1", "t1", d, st, dur, "individual")
            /\ ~SlotTaken("t1", d, st, dur) )
          => /\ response'.status = 201
             /\ Len(appts') = Len(appts) + 1
             /\ appts'[Len(appts')].startTime = st
             /\ appts'[Len(appts')].date = d]_vars

\* C4 witness: the second appointment was booked to start exactly when the first,
\* still pending, ends.
C4_Witness ==
  /\ response.status = 201
  /\ response.appointment = 2
  /\ Len(appts) = 2
  /\ appts[1].status = "pending"
  /\ appts[1].date = appts[2].date
  /\ appts[1].endTime = appts[2].startTime

(***************************************************************************)
(* SpecAvail: the provider precondition.  Two providers are registered     *)
(* (active, not yet verified); the admin verifies them and toggles their   *)
(* active flag; bookings name them or an id that belongs to no provider,   *)
(* for one hour in the morning or late in the evening.                     *)
(***************************************************************************)
InitAvail ==
  /\ appts = <<>>
  /\ therapists = Registered(FALSE)
  /\ inflight = AllIdle
  /\ response = Resp("none", 0, "none", 0)
  /\ clock = ServerStart

RequestedTherapists == TherapistIds \cup {"t0"}

AvailStartTimes == {T0900, T2330, T2400}

AvailNextBook ==
  \E t \in RequestedTherapists, st \in AvailStartTimes : Book("u1", t, 1, st, 60, "individual")

AvailNextBookAppointment ==
  \E t \in RequestedTherapists, st \in AvailStartTimes :
     BookAppointment("u1", t, 1, st, 60, "individual")

AvailNextCancel == \E id \in 1..MaxAppts : Cancel("u1", id)

AvailNextVerify == \E t \in RequestedTherapists : VerifyTherapist(t)

AvailNextToggle == \E t \in RequestedTherapists : ToggleStatus(t)

NextAvail ==
  \/ AvailNextBook
  \/ AvailNextBookAppointment
  \/ AvailNextCancel
  \/ AvailNextVerify
  \/ AvailNextToggle

SpecAvail == InitAvail /\ [][NextAvail]_vars

\* The provider does not exist, is not active or is not verified.
NotBookable(t) ==
  \/ t \notin DOMAIN therapists
  \/ ~therapists[t].isActive
  \/ ~therapists[t].isVerified

\* C10: a book request (either route) that passes validation and names a provider
\* that does not exist, is not active or is not verified is answered with the
\* provider-unavailable error and creates no appointment, whether or not the
\* requested slot is free.
C10_UnavailableProvider ==
  [][response'.route \in BookingRoutes =>
       \A t \in RequestedTherapists, st \in AvailStartTimes :
          (MatchesStartTime(st) /\ NotBookable(t) /\ Books("u1", t, 1, st, 60, "individual")) =>
             /\ response'.status = 404
             /\ response'.message = "Therapist not found or unavailable"
             /\ appts' = appts]_vars

\* C10 witness: a booking was refused for the provider while the slot was free and
\* every registered provider was either inactive or unverified.
C10_Witness ==
  /\ response = RespUnavailable("book")
  /\ ~therapists["t1"].isActive /\ therapists["t1"].isVerified
  /\ therapists["t2"].isActive /\ ~therapists["t2"].isVerified
  /\ \A i \in DOMAIN appts : appts[i].status = "cancelled"

\* C14: every persisted appointment has startTime before endTime on the same
\* calendar day: no stored endTime is past midnight (hour 24 or more).
C14_EndsSameDay ==
  \A i \in DOMAIN appts :
     /\ ClockMinutes(appts[i].startTime) < ClockMinutes(appts[i].endTime)
     /\ ParseInt(HourPart(appts[i].endTime)) < 24

(***************************************************************************)
(* SpecAsync: the handlers as the event loop runs them.  A handler gives   *)
(* up control at each await, so the steps of requests in flight interleave:*)
(* POST /book and POST /book-appointment await the provider lookup, the    *)
(* conflict query and the insert; PUT /appointments/:id/status awaits its  *)
(* findOne and its save.  PUT /:id/status and PUT /:id/cancel are one      *)
(* findOneAndUpdate, a single store operation.                             *)
(***************************************************************************)
Slots == 1..MaxInflight

FreeSlot(s) == inflight[s] = Idle /\ \A r \in 1..(s - 1) : inflight[r] # Idle

\* validation and `await Therapist.findById(therapistId)`
BeginBook(s, route, user, therapistId, date, startTime, duration, sessionType) ==
  /\ FreeSlot(s)
  /\ LET therapist == FindTherapist(therapists, therapistId)
     IN  IF ~BookValidation(startTime, duration, sessionType)
         THEN /\ response' = RespValidation(route)
              /\ inflight' = inflight
         ELSE IF TherapistUnavailable(therapist)
         THEN /\ response' = RespUnavailable(route)
              /\ inflight' = inflight
         ELSE /\ response' = response
              /\ inflight' = [inflight EXCEPT ![s] =
                   [pc |-> "bookQuery", route |-> route, user |-> user,
                    therapist |-> therapistId, date |-> date, startTime |-> startTime,
                    endTime |-> IF route = "book" THEN EndTimeOf(startTime, duration)
                                ELSE EndTimeOfUser(startTime, duration),
                    duration |-> duration, sessionType |-> sessionType,
                    hourlyRate |-> therapist.hourlyRate]]
  /\ UNCHANGED <<appts, therapists, clock>>

\* `await Appointment.findOne({...conflict...})`
BookQuery(s) ==
  /\ inflight[s].pc = "bookQuery"
  /\ LET q == inflight[s]
         conflict == IF q.route = "book"
                     THEN ConflictQuery(appts, q.therapist, q.date, q.startTime, q.endTime)
                     ELSE ConflictQueryUser(appts, q.therapist, q.date, q.startTime, q.endTime)
     IN  IF conflict
         THEN /\ response' = RespSlotTaken(q.route)
              /\ inflight' = [inflight EXCEPT ![s] = Idle]
         ELSE /\ response' = response
              /\ inflight' = [inflight EXCEPT ![s].pc = "bookSave"]
  /\ UNCHANGED <<appts, therapists, clock>>

\* `await appointment.save()` and the 201 response
BookSave(s) ==
  /\ inflight[s].pc = "bookSave"
  /\ Len(appts) < MaxAppts
  /\ LET q == inflight[s]
         amount == IF q.route = "book" THEN AmountOf(q.hourlyRate, q.duration)
                   ELSE AmountOfUser(q.hourlyRate, q.duration)
     IN  /\ appts' = Timestamps(Append(appts, NewAppointment(q.user, q.therapist, q.date,
                                   q.startTime, q.endTime, q.duration, q.sessionType, amount)),
                                clock)
         /\ response' = RespBooked(q.route, Len(appts) + 1)
  /\ inflight' = [inflight EXCEPT ![s] = Idle]
  /\ UNCHANGED <<therapists, clock>>

\* PUT /appointments/:id/status: validation and `await Appointment.findOne({_id, therapist})`
BeginSetStatus(s, actor, id, status, cancellationReason) ==
  /\ FreeSlot(s)
  /\ IF status \notin SettableStatuses
     THEN /\ response' = RespValidation("therapist/status")
          /\ inflight' = inflight
     ELSE IF ~FindForTherapist(appts, id, actor)
     THEN /\ response' = RespNotFound("therapist/status")
          /\ inflight' = inflight
     ELSE /\ response' = response
          /\ inflight' = [inflight EXCEPT ![s] =
               [pc |-> "statusSave", id |-> id, loaded |-> appts[id], status |-> status,
                cancellationReason |-> cancellationReason]]
  /\ UNCHANGED <<appts, therapists, clock>>

\* PUT /appointments/:id/status: `await appointment.save()` and the 200 response
StatusSave(s) ==
  /\ inflight[s].pc = "statusSave"
  /\ LET q == inflight[s]
     IN  /\ appts' = SaveStatus(appts, q.id, q.loaded, q.status, q.cancellationReason)
         /\ response' = RespStatusUpdated(q.id)
  /\ inflight' = [inflight EXCEPT ![s] = Idle]
  /\ UNCHANGED <<therapists, clock>>

\* The handler up to `await Appointment.find(...)`: period, now and startDate are set.
BeginAnalytics(s, therapistId, query, now) ==
  /\ FreeSlot(s)
  /\ inflight' = [inflight EXCEPT ![s] =
        [pc |-> "analyticsFind", therapist |-> therapistId, period |-> PeriodOf(query),
         now |-> now, startDate |-> StartDate(PeriodOf(query), now)]]
  /\ UNCHANGED <<appts, therapists, response, clock>>

\* The queries of the handler and its response.
AnalyticsRespond(s) ==
  /\ inflight[s].pc = "analyticsFind"
  /\ response' = AnalyticsReport(appts, inflight[s].therapist, inflight[s].period,
                                 inflight[s].startDate)
  /\ inflight' = [inflight EXCEPT ![s] = Idle]
  /\ UNCHANGED <<appts, therapists, clock>>

\* GET /admin/analytics up to `await Promise.all([...])`
BeginAdminAnalytics(s, query, now) ==
  /\ FreeSlot(s)
  /\ inflight' = [inflight EXCEPT ![s] =
        [pc |-> "adminAnalytics", period |-> PeriodOf(query), now |-> now,
         startDate |-> StartDateAdmin(PeriodOf(query), now)]]
  /\ UNCHANGED <<appts, therapists, response, clock>>

\* The queries of GET /admin/analytics and its response.
AdminAnalyticsRespond(s) ==
  /\ inflight[s].pc = "adminAnalytics"
  /\ response' = AdminReport(appts, therapists, inflight[s].period, inflight[s].startDate)
  /\ inflight' = [inflight EXCEPT ![s] = Idle]
  /\ UNCHANGED <<appts, therapists, clock>>

\* Time passes: the server's clock moves on to a later instant.
Tick(later) ==
  /\ DateGte(later, clock)
  /\ later # clock
  /\ clock' = later
  /\ UNCHANGED <<appts, therapists, inflight, response>>

AsyncStatuses == {"confirmed", "completed"}

AsyncBeginBook ==
  \E s \in Slots, route \in BookingRoutes, u \in Clients :
     BeginBook(s, route, u, "t1", 1, T0900, 60, "individual")

AsyncBookQuery == \E s \in Slots : BookQuery(s)

AsyncBookSave == \E s \in Slots : BookSave(s)

AsyncBeginSetStatus ==
  \E s \in Slots, id \in 1..MaxAppts, st \in AsyncStatuses :
     BeginSetStatus(s, "t1", id, st, NoText)

AsyncStatusSave == \E s \in Slots : StatusSave(s)

AsyncUpdateStatus ==
  \E id \in 1..MaxAppts, st \in AsyncStatuses : UpdateStatus("t1", id, st)

AsyncCancel == \E u \in Clients, id \in 1..MaxAppts : Cancel(u, id)

NextAsync ==
  \/ AsyncBeginBook
  \/ AsyncBookQuery
  \/ AsyncBookSave
  \/ AsyncBeginSetStatus
  \/ AsyncStatusSave
  \/ AsyncUpdateStatus
  \/ AsyncCancel

SpecAsync == Init /\ [][NextAsync]_vars

\* C2: of concurrent book requests for overlapping intervals of one provider and
\* date at most one creates an appointment: no insert adds an appointment that
\* overlaps a pending or confirmed appointment already in the ledger.
C2_NoConcurrentDoubleBooking ==
  [][\A s \in Slots :
        (inflight[s].pc = "bookSave" /\ BookSave(s)) =>
           ~SlotTaken(inflight[s].therapist, inflight[s].date, inflight[s].startTime,
                      inflight[s].duration)]_vars

\* C9: a provider status-set and a client cancel of the same appointment do not
\* overwrite one another: when the client's cancel took effect after the status-set
\* read the appointment, the status-set's save leaves the status cancelled.
C9_NoSilentOverwrite ==
  [][\A s \in Slots :
        ( /\ inflight[s].pc = "statusSave"
          /\ inflight[s].loaded.status \in ActiveStatuses
          /\ appts[inflight[s].id].status = "cancelled"
          /\ StatusSave(s) )
        => appts'[inflight[s].id].status = "cancelled"]_vars

(***************************************************************************)
(* Creation defaults, checked under SpecBooking.                           *)
(***************************************************************************)

\* C11: every appointment created by a successful book has status pending and
\* paymentStatus pending immediately after creation: a step of either booking
\* route that lengthens the ledger appends a document with both fields pending.
C11_CreatedPending ==
  [][Len(appts') > Len(appts) =>
        /\ Len(appts') = Len(appts) + 1
        /\ appts'[Len(appts')].status = "pending"
        /\ appts'[Len(appts')].paymentStatus = "pending"]_vars

\* C11 witness: a booking route answered 201 for the document it just appended.
C11_Witness ==
  /\ response.route \in BookingRoutes
  /\ response.status = 201
  /\ response.appointment = Len(appts)
  /\ appts[Len(appts)].status = "pending"
  /\ appts[Len(appts)].paymentStatus = "pending"
  /\ Len(appts) = MaxAppts

(***************************************************************************)
(* SpecAmount: the price.  The provider changes their hourly rate between  *)
(* bookings of 30 and 60 minutes; the appointments are then confirmed,     *)
(* completed, cancelled and reviewed.                                      *)
(***************************************************************************)
HourlyRates == {-30, 0, 60, 90}

AmountDurations == {30, 60}

AmountStatuses == {"completed", "cancelled"}

AmountNextBook ==
  \E dur \in AmountDurations : Book("u1", "t1", 1, T0900, dur, "individual")

AmountNextBookAppointment ==
  \E dur \in AmountDurations : BookAppointment("u1", "t1", 1, T0900, dur, "individual")

AmountNextProfile == \E rate \in HourlyRates : UpdateProfile("t1", rate)

AmountNextSetStatus ==
  \E id \in 1..MaxAppts, st \in AmountStatuses : SetStatus("t1", id, st, NoText)

AmountNextUpdateStatus == \E id \in 1..MaxAppts : UpdateStatus("t1", id, "confirmed")

AmountNextCancel == \E id \in 1..MaxAppts : Cancel("u1", id)

AmountNextReview == \E id \in 1..MaxAppts : Review("u1", id, 5, "good")

NextAmount ==
  \/ AmountNextBook
  \/ AmountNextBookAppointment
  \/ AmountNextProfile
  \/ AmountNextSetStatus
  \/ AmountNextUpdateStatus
  \/ AmountNextCancel
  \/ AmountNextReview

SpecAmount == Init /\ [][NextAmount]_vars

\* C12: the amount stored on an appointment equals hourlyRate / 60 * duration for
\* the provider's hourlyRate when it was booked (a rate of 90 and 30 minutes give
\* 45), and no stored amount is negative.
C12_AmountAtBooking ==
  [][/\ Len(appts') > Len(appts) =>
          LET a == appts'[Len(appts')]
              rate == therapists[a.therapist].hourlyRate
          IN  /\ a.amount * 60 = rate * a.duration
              /\ (rate = 90 /\ a.duration = 30) => a.amount = 45
     /\ \A i \in DOMAIN appts' : appts'[i].amount >= 0]_vars

\* C12 witness: after the rate was changed, a 30-minute booking at 90 an hour stored
\* 45 next to a booking priced at another rate.
C12_Witness ==
  /\ response.status = 201
  /\ Len(appts) = 2
  /\ therapists["t1"].hourlyRate = 90
  /\ appts[2].duration = 30
  /\ appts[2].amount = 45
  /\ appts[1].duration = 60
  /\ appts[1].amount = 60

\* C13: once an appointment exists no step changes its amount: not the provider's
\* status-set, not the client's cancel, not a review and not a later change of the
\* provider's hourlyRate.
C13_AmountFrozen ==
  [][\A i \in DOMAIN appts :
        /\ i \in DOMAIN appts'
        /\ appts'[i].amount = appts[i].amount]_vars

\* C13 witness: the provider's rate is no longer the rate the appointments were
\* priced at, one of them completed and reviewed, the other cancelled.
C13_Witness ==
  /\ Len(appts) = 2
  /\ \A i \in DOMAIN appts :
        appts[i].amount * 60 # therapists[appts[i].therapist].hourlyRate * appts[i].duration
  /\ appts[1].status = "completed" /\ appts[1].rating = 5
  /\ appts[2].status = "cancelled"

(***************************************************************************)
(* SpecSlots: the slot allocator.  One client books hours of one provider  *)
(* on two dates, written '09:00', '9:00', '9:30' and '10:00'; the provider *)
(* and the client move appointments out of pending; the allocator is asked *)
(* for either provider, for an unknown one, and without a date.            *)
(***************************************************************************)
SlotStartTimes == {T0900, T900, T930, T1000}

SlotDates ==
  {[year |-> 2025, month |-> 0, day |-> 10, hour |-> 0],
   [year |-> 2025, month |-> 1, day |-> 3, hour |-> 0]}

SlotsNextBook ==
  \E d \in SlotDates, st \in SlotStartTimes : Book("u1", "t1", d, st, 60, "individual")

SlotsNextUpdateStatus ==
  \E id \in 1..MaxAppts, st \in SettableStatuses : UpdateStatus("t1", id, st)

SlotsNextCancel == \E id \in 1..MaxAppts : Cancel("u1", id)

SlotsNextGet ==
  \E t \in RequestedTherapists, d \in SlotDates \cup {NoDate} : GetAvailableSlots(t, d)

NextSlots ==
  \/ SlotsNextBook
  \/ SlotsNextUpdateStatus
  \/ SlotsNextCancel
  \/ SlotsNextGet

SpecSlots == Init /\ [][NextSlots]_vars

\* The one-hour slot HH:00 to (HH+1):00 of the grid.
GridSlot(h) ==
  [startTime |-> <<h \div 10, h % 10, Colon, 0, 0>>,
   endTime |-> <<(h + 1) \div 10, (h + 1) % 10, Colon, 0, 0>>]

\* The grid hours whose HH:00 is not the startTime of a pending or confirmed
\* appointment of the provider on the date.
OpenHours(therapistId, date) ==
  {h \in 9..17 :
     ~\E i \in DOMAIN appts :
         /\ appts[i].therapist = therapistId
         /\ appts[i].date = date
         /\ appts[i].status \in {"pending", "confirmed"}
         /\ appts[i].startTime = GridSlot(h).startTime}

NoRequest == <<>>

\* the date of the busy day
BusyDay == [year |-> 2025, month |-> 0, day |-> 10, hour |-> 0]

\* The start times a client may write for the hour.
DayStartTimes(h) ==
  IF h = 9 THEN {T0900, T900, NoRequest}
  ELSE IF h = 17 THEN {<<1, 7, Colon, 0, 0>>, NoRequest}
  ELSE {<<h \div 10, h % 10, Colon, 0, 0>>}

\* The ledger after POST /book was called for the hours h, h + 1, ..., 17 with the
\* chosen start times.
RECURSIVE BookHours(_, _, _)
BookHours(ap, h, choice) ==
  IF h > 17 THEN ap
  ELSE BookHours(IF choice[h] = NoRequest THEN ap
                 ELSE BookResult(ap, Registered(TRUE), "u1", "t1", BusyDay, choice[h], 60,
                                 "individual").appts,
                 h + 1, choice)

InitFullDay ==
  /\ \E first \in DayStartTimes(9), last \in DayStartTimes(17) :
        appts = Timestamps(BookHours(<<>>, 9,
                          [h \in 9..17 |-> IF h = 9 THEN first
                                           ELSE IF h = 17 THEN last
                                           ELSE CHOOSE st \in DayStartTimes(h) : TRUE]),
                           ServerStart)
  /\ therapists = Registered(TRUE)
  /\ inflight = AllIdle
  /\ response = Resp("none", 0, "none", 0)
  /\ clock = ServerStart

FullDayNextCancel == \E id \in DOMAIN appts : Cancel("u1", id)

FullDayNextGet == GetAvailableSlots("t1", BusyDay)

NextFullDay ==
  \/ FullDayNextCancel
  \/ FullDayNextGet

SpecFullDay == InitFullDay /\ [][NextFullDay]_vars

\* Pending or confirmed one-hour appointments of the provider on the date cover
\* every hour from 09:00 to 18:00.
FullyBooked(therapistId, date) ==
  \A h \in 9..17 :
     \E i \in DOMAIN appts :
        /\ appts[i].therapist = therapistId
        /\ appts[i].date = date
        /\ appts[i].status \in ActiveStatuses
        /\ ClockMinutes(appts[i].startTime) = h * 60
        /\ ClockMinutes(appts[i].endTime) = (h + 1) * 60

\* C18: when pending or confirmed hourly appointments of a provider on a date cover
\* every hour from 09:00 to 18:00, however they were booked through book,
\* availableSlots returns the empty sequence for that provider and date.
C18_FullDayHasNoSlots ==
  [][(FullyBooked("t1", BusyDay) /\ GetAvailableSlots("t1", BusyDay)) =>
        response'.availableSlots = <<>>]_vars

(***************************************************************************)
(* SpecWindow: the analytics window.  A provider and the admin ask for     *)
(* their analytics, with every period, without one and with an unknown     *)
(* one, at instants around the turn of a year, a leap day and the ends of  *)
(* months and quarters; the two requests may be in flight together.        *)
(***************************************************************************)
Periods == {"week", "month", "quarter", "year", "day", NoPeriod}

Nows ==
  {[year |-> 2025, month |-> 0, day |-> 3, hour |-> 10],
   [year |-> 2024, month |-> 11, day |-> 31, hour |-> 23],
   [year |-> 2024, month |-> 2, day |-> 5, hour |-> 0],
   [year |-> 2025, month |-> 4, day |-> 31, hour |-> 12],
   [year |-> 2025, month |-> 7, day |-> 15, hour |-> 8],
   [year |-> 2025, month |-> 10, day |-> 1, hour |-> 0]}

WindowNextBegin ==
  \E s \in Slots, q \in Periods, now \in Nows : BeginAnalytics(s, "t1", q, now)

WindowNextRespond == \E s \in Slots : AnalyticsRespond(s)

WindowNextBeginAdmin ==
  \E s \in Slots, q \in Periods, now \in Nows : BeginAdminAnalytics(s, q, now)

WindowNextAdminRespond == \E s \in Slots : AdminAnalyticsRespond(s)

NextWindow ==
  \/ WindowNextBegin
  \/ WindowNextRespond
  \/ WindowNextBeginAdmin
  \/ WindowNextAdminRespond

SpecWindow == Init /\ [][NextWindow]_vars

\* The day after the day of d, at the same hour.
NextDay(d) ==
  IF d.day < DaysInMonth(d.year, d.month) THEN [d EXCEPT !.day = d.day + 1]
  ELSE IF d.month < 11 THEN [d EXCEPT !.month = d.month + 1, !.day = 1]
  ELSE [d EXCEPT !.year = d.year + 1, !.month = 0, !.day = 1]

RECURSIVE PlusDays(_, _)
PlusDays(d, n) == IF n = 0 THEN d ELSE PlusDays(NextDay(d), n - 1)

\* start is the window start that the period asked for gives at the instant now.
IsWindowStart(query, now, start) ==
  CASE query = "week" -> PlusDays(start, 7) = now
    [] query = "year" -> start = [year |-> now.year, month |-> 0, day |-> 1, hour |-> 0]
    [] query = "quarter" ->
         /\ start.year = now.year /\ start.day = 1 /\ start.hour = 0
         /\ start.month \in {0, 3, 6, 9}
         /\ start.month <= now.month /\ now.month <= start.month + 2
    [] OTHER -> start = [year |-> now.year, month |-> now.month, day |-> 1, hour |-> 0]

\* C19: the analytics window starts at now minus 7 days for period week, on the
\* first day of now's month for month, on the first day of now's quarter for
\* quarter, on January 1 of now's year for year, and as for month for any other or
\* missing period; the provider and the platform analytics derive the same start
\* for the same period and now.
C19_WindowStart ==
  [][/\ \A s \in Slots, q \in Periods, now \in Nows :
          /\ BeginAnalytics(s, "t1", q, now) => IsWindowStart(q, now, inflight'[s].startDate)
          /\ BeginAdminAnalytics(s, q, now) => IsWindowStart(q, now, inflight'[s].startDate)
     /\ \A s1 \in Slots, s2 \in Slots :
          ( /\ inflight'[s1].pc = "analyticsFind"
            /\ inflight'[s2].pc = "adminAnalytics"
            /\ inflight'[s1].period = inflight'[s2].period
            /\ inflight'[s1].now = inflight'[s2].now )
          => inflight'[s1].startDate = inflight'[s2].startDate]_vars

\* C19 witness: on January 3, 2025 a provider's and the admin's week analytics are in
\* flight with a window that starts on December 27, 2024.
C19_Witness ==
  /\ inflight[1].pc = "analyticsFind"
  /\ inflight[2].pc = "adminAnalytics"
  /\ inflight[1].period = "week" /\ inflight[2].period = "week"
  /\ inflight[1].now = [year |-> 2025, month |-> 0, day |-> 3, hour |-> 10]
  /\ inflight[2].now = inflight[1].now
  /\ inflight[1].startDate = [year |-> 2024, month |-> 11, day |-> 27, hour |-> 10]

(***************************************************************************)
(* SpecAnalytics: the provider's report.  On January 3, 2025 one client    *)
(* has appointments with two providers, dated before the window of the     *)
(* week, inside it in the old year, and in the new year; the providers     *)
(* complete them, the client cancels them, and each provider asks for the  *)
(* report of the week and of the year.                                     *)
(***************************************************************************)
AnalyticsNow == [year |-> 2025, month |-> 0, day |-> 3, hour |-> 10]

AnalyticsDates ==
  {[year |-> 2024, month |-> 11, day |-> 20, hour |-> 0],
   [year |-> 2024, month |-> 11, day |-> 30, hour |-> 0],
   [year |-> 2025, month |-> 0, day |-> 2, hour |-> 0]}

AnalyticsPeriods == {"week", "year"}

AnalyticsDurations == {30, 60}

AnalyticsNextBook ==
  \E t \in TherapistIds, d \in AnalyticsDates, dur \in AnalyticsDurations :
     Book("u1", t, d, T0900, dur, "individual")

AnalyticsNextSetStatus ==
  \E t \in TherapistIds, id \in 1..MaxAppts : SetStatus(t, id, "completed", NoText)

AnalyticsNextCancel == \E id \in 1..MaxAppts : Cancel("u1", id)

AnalyticsNextBegin ==
  \E t \in TherapistIds, q \in AnalyticsPeriods : BeginAnalytics(1, t, q, AnalyticsNow)

AnalyticsNextRespond == AnalyticsRespond(1)

NextAnalytics ==
  \/ AnalyticsNextBook
  \/ AnalyticsNextSetStatus
  \/ AnalyticsNextCancel
  \/ AnalyticsNextBegin
  \/ AnalyticsNextRespond

SpecAnalytics == Init /\ [][NextAnalytics]_vars

RECURSIVE SumSeq(_)
SumSeq(seq) == IF seq = <<>> THEN 0 ELSE Head(seq) + SumSeq(Tail(seq))

\* The sum of amount over the appointments with the ids.
RECURSIVE AmountOver(_)
AmountOver(ids) ==
  IF ids = {} THEN 0
  ELSE LET i == CHOOSE j \in ids : TRUE IN appts[i].amount + AmountOver(ids \ {i})

\* The provider's completed appointments dated on or after the window start.
CompletedInWindow(therapistId, start) ==
  {i \in DOMAIN appts :
     /\ appts[i].therapist = therapistId
     /\ appts[i].status = "completed"
     /\ DateGte(appts[i].date, start)}

\* C20: in the provider analytics the sum of the per-bucket earnings series equals
\* the sum of amount over that provider's completed appointments dated in the
\* window; appointments of other statuses or of other providers contribute nothing.
C20_EarningsSum ==
  [][\A s \in Slots :
        (inflight[s].pc = "analyticsFind" /\ AnalyticsRespond(s)) =>
           SumSeq(response'.earnings.data) =
              AmountOver(CompletedInWindow(inflight[s].therapist, inflight[s].startDate))]_vars

\* C20 witness: a report with earnings of 90 in one bucket while two appointments of
\* different providers, both dated in the window, are completed.
C20_Witness ==
  /\ response.route = "therapist/analytics"
  /\ response.earnings.data = <<90>>
  /\ Len(appts) = 2
  /\ \A i \in DOMAIN appts :
        /\ appts[i].status = "completed"
        /\ appts[i].date = [year |-> 2025, month |-> 0, day |-> 2, hour |-> 0]
  /\ appts[1].therapist # appts[2].therapist

(***************************************************************************)
(* SpecPlatform: the reports and the other reads.  One client books one    *)
(* provider in January for dates in January and February, for sessions of  *)
(* two types; the provider completes and the client cancels appointments;  *)
(* time passes into February; the admin and either provider ask for their  *)
(* report of the week and of the month, and the client for the free slots. *)
(***************************************************************************)
PlatformInstants == {ServerStart, [year |-> 2025, month |-> 1, day |-> 5, hour |-> 10]}

PlatformDates ==
  {[year |-> 2025, month |-> 0, day |-> 10, hour |-> 0],
   [year |-> 2025, month |-> 1, day |-> 3, hour |-> 0]}

PlatformPeriods == {"week", "month"}

PlatformSessionTypes == {"individual", "couple"}

PlatformNextBook ==
  \E d \in PlatformDates, ty \in PlatformSessionTypes : Book("u1", "t1", d, T0900, 60, ty)

PlatformNextSetStatus ==
  \E id \in 1..MaxAppts : SetStatus("t1", id, "completed", NoText)

PlatformNextCancel == \E id \in 1..MaxAppts : Cancel("u1", id)

PlatformNextTick == \E later \in PlatformInstants : Tick(later)

PlatformNextBeginAdmin == \E q \in PlatformPeriods : BeginAdminAnalytics(1, q, clock)

PlatformNextAdminRespond == AdminAnalyticsRespond(1)

PlatformNextBegin ==
  \E t \in TherapistIds, q \in PlatformPeriods : BeginAnalytics(1, t, q, clock)

PlatformNextRespond == AnalyticsRespond(1)

PlatformNextGet == \E d \in PlatformDates : GetAvailableSlots("t1", d)

NextPlatform ==
  \/ PlatformNextBook
  \/ PlatformNextSetStatus
  \/ PlatformNextCancel
  \/ PlatformNextTick
  \/ PlatformNextBeginAdmin
  \/ PlatformNextAdminRespond
  \/ PlatformNextBegin
  \/ PlatformNextRespond
  \/ PlatformNextGet

SpecPlatform == Init /\ [][NextPlatform]_vars

\* C21: in the platform analytics the sum of the per-bucket revenue series equals
\* platformStats.totalRevenue, the total completed-appointment revenue reported for
\* the same window.
C21_RevenueSum ==
  [][\A s \in Slots :
        (inflight[s].pc = "adminAnalytics" /\ AdminAnalyticsRespond(s)) =>
           SumSeq(response'.revenueAnalytics.revenue) = response'.platformStats.totalRevenue]_vars

\* The provider's appointments dated on or after the window start, of any status.
InWindow(therapistId, start) ==
  {i \in DOMAIN appts : appts[i].therapist = therapistId /\ DateGte(appts[i].date, start)}

\* C22: in the provider analytics the appointment-count series counts every
\* appointment of that provider in the window regardless of status: the series sums
\* to the number of such appointments, and so do the session-type counts.
C22_AppointmentCount ==
  [][\A s \in Slots :
        (inflight[s].pc = "analyticsFind" /\ AnalyticsRespond(s)) =>
           LET n == Cardinality(InWindow(inflight[s].therapist, inflight[s].startDate))
           IN  /\ SumSeq(response'.appointments.data) = n
               /\ SumSeq(response'.sessionTypes.data) = n]_vars

\* C22 witness: a report counting a cancelled and a completed appointment of two
\* session types, in two buckets.
C22_Witness ==
  /\ response.route = "therapist/analytics"
  /\ response.appointments.data = <<1, 1>>
  /\ response.sessionTypes.data = <<1, 1>>
  /\ Len(appts) = 2
  /\ appts[1].status = "cancelled"
  /\ appts[2].status = "completed"

(***************************************************************************)
(* Client statistics and labels, checked under SpecAnalytics.              *)
(***************************************************************************)
\* The clients of the provider's appointments in the window whose earliest appointment
\* with this provider is dated in the window.
NewClientsOf(therapistId, start) ==
  {u \in {appts[i].user : i \in InWindow(therapistId, start)} :
     \A i \in DOMAIN appts :
        (appts[i].user = u /\ appts[i].therapist = therapistId) => DateGte(appts[i].date, start)}

\* C23: in the provider analytics newClients is the number of distinct clients in
\* the window whose earliest-ever appointment with this provider is dated inside the
\* window, and returningClients equals totalClients minus newClients and is never
\* negative.
C23_ClientStats ==
  [][\A s \in Slots :
        (inflight[s].pc = "analyticsFind" /\ AnalyticsRespond(s)) =>
           LET stats == response'.clientStats
           IN  /\ stats.newClients =
                     Cardinality(NewClientsOf(inflight[s].therapist, inflight[s].startDate))
               /\ stats.returningClients = stats.totalClients - stats.newClients
               /\ stats.returningClients >= 0]_vars

\* The dates of the provider's appointments in the window that carry the label.
BucketDates(therapistId, start, period, label) ==
  {appts[i].date : i \in {j \in InWindow(therapistId, start) :
                              LabelFormat(period, appts[j].date) = label}}

\* Every date of an earlier label lies before every date of a later label.
Chronological(labels, therapistId, start, period) ==
  \A i, j \in DOMAIN labels :
     i < j => \A a \in BucketDates(therapistId, start, period, labels[i]),
                 b \in BucketDates(therapistId, start, period, labels[j]) : ~DateGte(a, b)

\* C24: the labels of the provider's earnings and appointment-count series are in
\* chronological order, also when the window spans a year boundary (a week window
\* running from late December into early January).
C24_LabelsChronological ==
  [][\A s \in Slots :
        (inflight[s].pc = "analyticsFind" /\ AnalyticsRespond(s)) =>
           LET t == inflight[s].therapist
               start == inflight[s].startDate
               period == inflight[s].period
           IN  /\ Chronological(response'.earnings.labels, t, start, period)
               /\ Chronological(response'.appointments.labels, t, start, period)]_vars

(***************************************************************************)
(* The provider report over appointments booked a year and more ahead.     *)
(***************************************************************************)
BucketDays ==
  {[year |-> 2025, month |-> 0, day |-> 5, hour |-> 0],
   [year |-> 2025, month |-> 1, day |-> 5, hour |-> 0],
   [year |-> 2026, month |-> 0, day |-> 5, hour |-> 0]}

BucketPeriods == {"week", "month", "quarter", "year"}

BucketsNextBook == \E d \in BucketDays : Book("u1", "t1", d, T0900, 60, "individual")

BucketsNextSetStatus == \E id \in 1..MaxAppts : SetStatus("t1", id, "completed", NoText)

BucketsNextCancel == \E id \in 1..MaxAppts : Cancel("u1", id)

BucketsNextBegin == \E q \in BucketPeriods : BeginAnalytics(1, "t1", q, clock)

BucketsNextRespond == AnalyticsRespond(1)

NextBuckets ==
  \/ BucketsNextBook
  \/ BucketsNextSetStatus
  \/ BucketsNextCancel
  \/ BucketsNextBegin
  \/ BucketsNextRespond

SpecBuckets == Init /\ [][NextBuckets]_vars

\* The dates are on the same calendar day (week, month), resp. in the same month of
\* the same year (quarter, year).
SameBucketUnit(period, a, b) ==
  /\ a.year = b.year
  /\ a.month = b.month
  /\ (period = "week" \/ period = "month") => a.day = b.day

\* The appointments of the ids that are dated in the calendar unit of the date.
InUnit(ids, period, date) == {i \in ids : SameBucketUnit(period, appts[i].date, date)}

\* C25: each bucket of the provider report stands for one calendar day (week and
\* month periods) or one calendar month of one year (quarter and year periods): the
\* count under a label is the number of the window's appointments dated on one
\* calendar day, resp. in one month of one year, and so is each monthly-trend count
\* over the completed appointments.
C25_BucketIsOneDayOrMonth ==
  [][\A s \in Slots :
        (inflight[s].pc = "analyticsFind" /\ AnalyticsRespond(s)) =>
           LET period == inflight[s].period
               ids == InWindow(inflight[s].therapist, inflight[s].startDate)
               done == {i \in ids : appts[i].status = "completed"}
               counts == response'.appointments
               trends == response'.monthlyTrends
           IN  /\ \A k \in DOMAIN counts.labels :
                     \E i \in ids :
                        /\ LabelFormat(period, appts[i].date) = counts.labels[k]
                        /\ counts.data[k] = Cardinality(InUnit(ids, period, appts[i].date))
               /\ \A k \in DOMAIN trends.labels :
                     \E i \in done :
                        /\ <<appts[i].date.month>> = trends.labels[k]
                        /\ trends.appointments[k] =
                              Cardinality(InUnit(done, period, appts[i].date))]_vars

\* An empty series: no label and no value.
EmptySeries == [labels |-> <<>>, data |-> <<>>]

\* C26: analytics over a window that contains no appointments answers successfully
\* with zero-length earnings, appointment-count and session-type series and zero
\* client counts (provider scope), resp. a zero-length revenue series, zero
\* appointment totals and an empty status distribution (platform scope).
C26_EmptyWindow ==
  [][\A s \in Slots :
        /\ (/\ inflight[s].pc = "analyticsFind"
            /\ InWindow(inflight[s].therapist, inflight[s].startDate) = {}
            /\ AnalyticsRespond(s)) =>
               /\ response'.status = 200
               /\ response'.earnings = EmptySeries
               /\ response'.appointments = EmptySeries
               /\ response'.sessionTypes = EmptySeries
               /\ response'.clientStats.totalClients = 0
               /\ response'.clientStats.newClients = 0
               /\ response'.clientStats.returningClients = 0
        /\ (/\ inflight[s].pc = "adminAnalytics"
            /\ \A i \in DOMAIN appts :
                  /\ ~DateGte(appts[i].date, inflight[s].startDate)
                  /\ ~DateGte(appts[i].createdAt, inflight[s].startDate)
            /\ AdminAnalyticsRespond(s)) =>
               /\ response'.status = 200
               /\ response'.revenueAnalytics =
                     [labels |-> <<>>, revenue |-> <<>>, appointments |-> <<>>]
               /\ response'.platformStats.totalAppointments = 0
               /\ response'.platformStats.completedAppointments = 0
               /\ response'.platformStats.totalRevenue = 0
               /\ DOMAIN response'.appointmentStatus = {}]_vars

\* A provider report with empty series over a ledger of two appointments, both dated
\* before the window of any period at the time of the clock.
C26_Witness ==
  /\ response.route = "therapist/analytics"
  /\ response.status = 200
  /\ response.appointments = EmptySeries
  /\ response.clientStats.totalClients = 0
  /\ Len(appts) = 2
  /\ \A i \in DOMAIN appts : appts[i].date = [year |-> 2025, month |-> 0, day |-> 10, hour |-> 0]
  /\ clock = [year |-> 2025, month |-> 1, day |-> 5, hour |-> 10]

\* The routes of the read operations.
ReadRoutes == {"therapist/analytics", "admin/analytics", "available-slots"}

\* A step of a read operation: a step of one of the analytics handlers, a call of
\* availableSlots, or any step that answers on a read route.
ReadStep ==
  \/ \E s \in Slots : AnalyticsRespond(s) \/ AdminAnalyticsRespond(s)
  \/ \E s \in Slots : inflight[s] = Idle /\ inflight'[s].pc \in {"analyticsFind", "adminAnalytics"}
  \/ \E t \in TherapistIds, d \in PlatformDates \cup {NoDate} : GetAvailableSlots(t, d)
  \/ response' # response /\ response'.route \in ReadRoutes

\* C27: the read operations, analytics of the provider and of the platform and
\* availableSlots, leave the appointment ledger and the provider records unchanged.
C27_ReadsChangeNothing ==
  [][ReadStep => (appts' = appts /\ therapists' = therapists)]_vars

\* All three reads have answered over a ledger holding a completed appointment: the
\* platform report counts the two appointments that are still there.
C27_Witness ==
  /\ response.route = "admin/analytics"
  /\ response.platformStats.totalAppointments = 2
  /\ Len(appts) = 2
  /\ appts[1].status = "completed"
  /\ appts[2].status = "pending"

(***************************************************************************)
(* Listing the free slots and booking one of them: appointments that start *)
(* off the hour or last longer than an hour.                               *)
(***************************************************************************)
GridStartTimes == {T0900, T0930, T1000}

GridDurations == {60, 120}

GridNextBook ==
  \E st \in GridStartTimes, dur \in GridDurations :
     Book("u1", "t1", BusyDay, st, dur, "individual")

GridNextCancel == \E id \in 1..MaxAppts : Cancel("u1", id)

GridNextGet == GetAvailableSlots("t1", BusyDay)

NextGrid ==
  \/ GridNextBook
  \/ GridNextCancel
  \/ GridNextGet

SpecGrid == Init /\ [][NextGrid]_vars

\* C28: every slot that availableSlots returns for a provider and a date is free: a
\* book request for that provider, date, the slot's startTime and duration 60, issued
\* right after the listing, does not fail with "Time slot is not available".
C28_ListedSlotIsBookable ==
  [][(response'.route = "available-slots" /\ response'.status = 200
        /\ GetAvailableSlots("t1", BusyDay)) =>
       \A k \in DOMAIN response'.availableSlots :
          BookResult(appts', therapists', "u2", "t1", BusyDay,
                     response'.availableSlots[k].startTime, 60, "individual").response
            # RespSlotTaken("book")]_vars

(***************************************************************************)
(* Rebooking a released interval and the two booking routes, checked under *)
(* SpecBooking.                                                            *)
(***************************************************************************)
\* C29: once an appointment is cancelled, completed or no-show, a book request for
\* its provider, date and interval is not blocked by it: the request succeeds and
\* adds a pending appointment unless some pending or confirmed appointment of that
\* provider and date overlaps the interval.
C29_ReleasedIntervalIsBookable ==
  [][response'.route \in BookingRoutes =>
       \A i \in DOMAIN appts :
          ( /\ appts[i].status \in TerminalStatuses
            /\ appts[i].therapist = "t1"
            /\ ~SlotTaken("t1", appts[i].date, appts[i].startTime, appts[i].duration)
            /\ Books("u1", "t1", appts[i].date, appts[i].startTime, appts[i].duration,
                     "individual") )
          => /\ response'.status = 201
             /\ Len(appts') = Len(appts) + 1
             /\ appts'[i] = appts[i]
             /\ appts'[Len(appts')].status = "pending"
             /\ appts'[Len(appts')].date = appts[i].date
             /\ appts'[Len(appts')].startTime = appts[i].startTime
             /\ appts'[Len(appts')].endTime = appts[i].endTime]_vars

\* The interval of the first appointment, which is no longer pending or confirmed,
\* has just been booked again.
C29_Witness ==
  /\ response.status = 201
  /\ response.appointment = 2
  /\ Len(appts) = 2
  /\ appts[1].status \in TerminalStatuses
  /\ appts[2].status = "pending"
  /\ appts[2].therapist = appts[1].therapist
  /\ appts[2].date = appts[1].date
  /\ appts[2].startTime = appts[1].startTime
  /\ appts[2].endTime = appts[1].endTime

\* C30: POST /book and POST /book-appointment are equivalent: run on the same ledger
\* and provider records with the same request they give the same status and message
\* and leave the same ledger, so that on success the appointments they persist have
\* the same client, provider, date, startTime, endTime, duration, amount and status.
C30_RoutesEquivalent ==
  [][response'.route \in BookingRoutes =>
       \A d \in BookingDates, st \in BookingStartTimes, dur \in BookingDurations :
          Books("u1", "t1", d, st, dur, "individual") =>
             LET viaBook == BookResult(appts, therapists, "u1", "t1", d, st, dur,
                                       "individual")
                 viaUser == BookAppointmentResult(appts, therapists, "u1", "t1", d, st, dur,
                                                  "individual")
             IN  /\ viaBook.appts = viaUser.appts
                 /\ viaBook.response.status = viaUser.response.status
                 /\ viaBook.response.message = viaUser.response.message
                 /\ viaBook.response.appointment = viaUser.response.appointment
                 /\ appts' = Timestamps(viaBook.appts, clock)
                 /\ response'.status = viaBook.response.status]_vars

\* POST /book-appointment has just created the second appointment, for half an hour,
\* on a ledger whose first appointment is still pending.
C30_Witness ==
  /\ response.route = "book-appointment"
  /\ response.status = 201
  /\ response.appointment = 2
  /\ Len(appts) = 2
  /\ appts[1].status = "pending"
  /\ appts[2].duration = 30
  /\ appts[2].amount = 45

====
